---- MODULE Spec2Model ----
(***************************************************************************)
(* A model of the Evernote side of evernote-telegram-bot:                  *)
(*   - AsyncEvernoteApi (evernoterobot/ext/evernote/api.py): the five      *)
(*     note-store operations, the error translation of                     *)
(*     __call_store_method, the title rule of new_note and the             *)
(*     ThreadPoolExecutor every operation is dispatched to;                *)
(*   - the merge of new content into an existing note (update_note of      *)
(*     evernotebot/util/evernote/client.py, exercised by                   *)
(*     tests/unit/test_evernote_api.py).                                   *)
(* Three specifications share the variables:                               *)
(*   Spec      one client operation at a time against a remote store that  *)
(*             answers or raises;                                          *)
(*   MergeSpec the two-phase merge against a remote store with state;      *)
(*   PoolSpec  concurrently dispatched calls on the bounded worker pool.   *)
(***************************************************************************)
EXTENDS Integers, Sequences, FiniteSets, TLC

VARIABLES
    op,         \* the client operation in hand: [name, token]
    sent,       \* the remote note-store calls the operation has issued, in order
    raised,     \* the exception the remote call raised: {} or {e}
    outcome,    \* what the caller received: a result or a typed error
    input,      \* the arguments of the operation in hand
    store,      \* MergeSpec: the remote notes, guid -> note
    pc,         \* MergeSpec: the position of the merge in hand
    local,      \* MergeSpec: the merge's transient copies (fetched note, staging note)
    history,    \* MergeSpec: the requests of the merges that updated the note, in order
    merges,     \* MergeSpec: the number of merges started
    phase,      \* PoolSpec: call -> "new" | "queued" | "running" | "resumed"
    queue,      \* PoolSpec: the executor's work queue (FIFO)
    received    \* PoolSpec: call -> what its awaiting task was resumed with: {} or {outcome}

vars == <<op, sent, raised, outcome, input, store, pc, local, history, merges,
          phase, queue, received>>

clientVars == <<op, sent, raised, outcome, input>>
mergeVars == <<store, pc, local, history, merges>>
poolVars == <<phase, queue, received>>

(***************************************************************************)
(* Bounds of the model.                                                    *)
(***************************************************************************)
MaxTextLen == 32
MaxDuration == 2
MaxMerges == 2
ExtraCalls == 2

(***************************************************************************)
(* Strings are sequences of characters where the code measures or slices   *)
(* them (text, title).                                                     *)
(***************************************************************************)
RECURSIVE Rep(_, _)
Rep(c, n) == IF n = 0 THEN <<>> ELSE <<c>> \o Rep(c, n - 1)

Texts == {Rep("a", i) \o Rep("b", j) : <<i, j>> \in
            {p \in (0..MaxTextLen) \X (0..MaxTextLen) : p[1] + p[2] <= MaxTextLen}}

Titles == {<<>>, <<"T", "i">>}

Tokens == {"tokenA", "tokenB"}

NotebookGuids == {"nb_guid"}

NoteGuids == {"123"}

\* (path, mime_type) pairs
FileLists == {<<>>, <<<<"/tmp/a.txt", "text/plain">>>>,
              <<<<"/tmp/a.txt", "text/plain">>, <<"/tmp/b.png", "image/png">>>>}

(***************************************************************************)
(* The remote note store as one call sees it: it returns a value or raises *)
(* one of the SDK's exceptions.                                            *)
(***************************************************************************)
RateLimitCode == 19
ErrorCodes == {1, RateLimitCode}

Exc(cls, code, hasDur, dur, msg) ==
    [cls |-> cls, errorCode |-> code, hasRateLimitDuration |-> hasDur,
     rateLimitDuration |-> dur, message |-> msg]

RemoteExceptions ==
    {Exc("EDAMNotFoundException", 0, FALSE, 0, "")}
    \cup {Exc("EDAMSystemException", c, FALSE, 0, "sys") : c \in ErrorCodes}
    \cup {Exc("EDAMSystemException", c, TRUE, d, "sys") : c \in ErrorCodes, d \in 0..MaxDuration}
    \cup {Exc("EDAMUserException", 0, FALSE, 0, "user"),
          Exc("Exception", 0, FALSE, 0, "timed out")}

\* a behaviour of the remote method: the value it returns, or the exception it raises
Returns(v) == [raises |-> {}, value |-> v]
Raises(e) == [raises |-> {e}, value |-> ""]

RemoteBehaviours(method) ==
    {Returns(method \o " result")} \cup {Raises(e) : e \in RemoteExceptions}

(***************************************************************************)
(* The typed errors of the client.                                         *)
(***************************************************************************)
Returned(v) == [kind |-> "return", value |-> v, cls |-> "", description |-> "", cause |-> {}]

\* raise cls(description) from cause      (cause = {} is "from None")
Error(cls, description, cause) ==
    [kind |-> "raise", value |-> "", cls |-> cls, description |-> description, cause |-> cause]

NoOutcome == [kind |-> "none", value |-> "", cls |-> "", description |-> "", cause |-> {}]

\* a description that leaves the duration out
RateLimitDescriptionNoValue(e) == "rateLimitDuration"

\* '{0}: {1}'.format(errorCode, message)
SystemDescription(e) == ToString(e.errorCode) \o ": " \o e.message

\* 'rateLimitDuration == {0}'.format(e.rateLimitDuration)
RateLimitDescription(e) == "rateLimitDuration == " \o ToString(e.rateLimitDuration)

\* the translation without the hasattr(e, 'rateLimitDuration') test
TranslateNoDurationCheck(e) ==
    IF e.cls = "EDAMNotFoundException"
    THEN Error("NoteNotFound", "", {})
    ELSE IF e.cls = "EDAMSystemException"
    THEN IF e.errorCode = RateLimitCode
         THEN Error("RateLimitReached", RateLimitDescription(e), {})
         ELSE Error("EvernoteApiError", SystemDescription(e), {})
    ELSE Error("EvernoteApiError", "", {})

\* the except clauses of __call_store_method, in their order
Translate(e) ==
    IF e.cls = "EDAMNotFoundException"
    THEN Error("NoteNotFound", "", {})
    ELSE IF e.cls = "EDAMSystemException"
    THEN IF e.errorCode = RateLimitCode /\ e.hasRateLimitDuration
         THEN Error("RateLimitReached", RateLimitDescription(e), {})
         ELSE Error("EvernoteApiError", SystemDescription(e), {})
    ELSE Error("EvernoteApiError", "", {})

\* the call without its except clauses: the SDK's exception goes to the caller
CallStoreMethodRaw(b) ==
    IF b.raises = {} THEN Returned(b.value)
    ELSE LET e == CHOOSE x \in b.raises : TRUE IN Error(e.cls, e.message, {})

\* __call_store_method: the remote method is called once; its value is returned, its
\* exception is translated
CallStoreMethod(b) ==
    IF b.raises = {} THEN Returned(b.value)
    ELSE Translate(CHOOSE e \in b.raises : TRUE)

RemoteCall(method, token, note) == [method |-> method, token |-> token, note |-> note]

(***************************************************************************)
(* Notes and their bodies.  A body is a sequence of elements.              *)
(***************************************************************************)
Element(tag, text, raw) == [tag |-> tag, text |-> text, raw |-> raw]
RootOpen == Element("<en-note>", <<>>, "")
RootClose == Element("</en-note>", <<>>, "")
Br == Element("<br />", <<>>, "")
Div(text) == Element("div", text, "")
Html(raw) == Element("html", <<>>, raw)
Media(file) == Element("en-media", <<>>, file[2])
Anchor(href, name) == Element("a", <<>>, href \o " " \o name)

Note(guid, title, notebookGuid, content, resources) ==
    [guid |-> guid, title |-> title, notebookGuid |-> notebookGuid,
     content |-> content, resources |-> resources]

\* str(NoteContent) of a note built from text and files
NewContent(text, files) ==
    <<RootOpen, Br, Div(text), Br>> \o [i \in 1..Len(files) |-> Media(files[i])] \o <<RootClose>>

TitleLimit == 30
TitlePrefix == 25
Ellipsis == <<".", ".", ".">>

\* the title rule with len(text) >= 30
NewTitleOffByOne(title, text) ==
    IF title # <<>> THEN title
    ELSE IF Len(text) >= TitleLimit THEN SubSeq(text, 1, TitlePrefix) \o Ellipsis
    ELSE text

\* title or ('%s...' % text[:25] if len(text) > 30 else text)
NewTitle(title, text) ==
    IF title # <<>> THEN title
    ELSE IF Len(text) > TitleLimit THEN SubSeq(text, 1, TitlePrefix) \o Ellipsis
    ELSE text

(***************************************************************************)
(* Spec: the client operations, one at a time.                             *)
(***************************************************************************)
NoInput ==
    [title |-> <<>>, text |-> <<>>, html |-> "", files |-> <<>>, notebookGuid |-> "", guid |-> ""]

ClientIdle ==
    /\ op = [name |-> "", token |-> ""]
    /\ sent = <<>>
    /\ raised = {}
    /\ outcome = NoOutcome
    /\ input = NoInput

MergeIdle ==
    /\ store = <<>>
    /\ pc = "off"
    /\ local = <<>>
    /\ history = <<>>
    /\ merges = 0

PoolIdle ==
    /\ phase = <<>>
    /\ queue = <<>>
    /\ received = <<>>

Init == ClientIdle /\ MergeIdle /\ PoolIdle

\* one operation that forwards to one remote method
Forward(name, method, token, in, note) ==
    \E b \in RemoteBehaviours(method) :
        /\ op' = [name |-> name, token |-> token]
        /\ input' = in
        /\ sent' = <<RemoteCall(method, token, note)>>
        /\ raised' = b.raises
        /\ outcome' = CallStoreMethod(b)
        /\ UNCHANGED <<mergeVars, poolVars>>

get_note ==
    /\ ClientIdle
    /\ \E token \in Tokens, guid \in NoteGuids :
        Forward("get_note", "getNote", token, [NoInput EXCEPT !.guid = guid], {})

SomeNotes ==
    {Note(g, t, "nb_guid", NewContent(<<"a">>, <<>>), <<>>) : g \in {"", "123"}, t \in Titles}

save_note ==
    /\ ClientIdle
    /\ \E token \in Tokens, note \in SomeNotes :
        Forward("save_note", "createNote", token, NoInput, {note})

new_note ==
    /\ ClientIdle
    /\ \E token \in Tokens, nb \in NotebookGuids, text \in Texts, title \in Titles,
       files \in FileLists :
        Forward("new_note", "createNote", token,
                [NoInput EXCEPT !.title = title, !.text = text, !.files = files,
                                !.notebookGuid = nb],
                {Note("", NewTitle(title, text), nb, NewContent(text, files), files)})

update_note ==
    /\ ClientIdle
    /\ \E token \in Tokens, note \in SomeNotes :
        Forward("update_note", "updateNote", token, NoInput, {note})

get_default_notebook ==
    /\ ClientIdle
    /\ \E token \in Tokens :
        Forward("get_default_notebook", "getDefaultNotebook", token, NoInput, {})

\* the awaiting caller takes the outcome; the client is ready for the next operation
Return ==
    /\ outcome # NoOutcome
    /\ pc = "off"
    /\ op' = [name |-> "", token |-> ""]
    /\ sent' = <<>>
    /\ raised' = {}
    /\ outcome' = NoOutcome
    /\ input' = NoInput
    /\ UNCHANGED <<mergeVars, poolVars>>

Next ==
    \/ get_note
    \/ save_note
    \/ new_note
    \/ update_note
    \/ get_default_notebook
    \/ Return

Spec == Init /\ [][Next]_vars

(***************************************************************************)
(* Properties of the client operations (Spec).                             *)
(***************************************************************************)
ClientOps == {"get_note", "save_note", "new_note", "update_note", "get_default_notebook"}

TypedErrors == {"NoteNotFound", "RateLimitReached", "EvernoteApiError"}

IsRateLimit(e) ==
    e.cls = "EDAMSystemException" /\ e.errorCode = 19 /\ e.hasRateLimitDuration

\* C1: whatever the operation, a failure of the remote call reaches the caller as exactly
\* one typed error chosen by the failure: not found -> NoteNotFound; a system failure with
\* code 19 and a rate-limit duration -> RateLimitReached; any other failure (a system
\* failure with another code or without a duration included) -> EvernoteApiError.  The
\* SDK's own exception never reaches the caller.
C1_ErrorTranslation ==
    op.name \in ClientOps =>
        /\ raised = {} => outcome.kind = "return"
        /\ \A e \in raised :
              /\ outcome.kind = "raise"
              /\ outcome.cls \in TypedErrors
              /\ e.cls = "EDAMNotFoundException" => outcome.cls = "NoteNotFound"
              /\ IsRateLimit(e) => outcome.cls = "RateLimitReached"
              /\ e.cls = "EDAMSystemException" /\ ~IsRateLimit(e)
                    => outcome.cls = "EvernoteApiError"
              /\ e.cls \notin {"EDAMNotFoundException", "EDAMSystemException"}
                    => outcome.cls = "EvernoteApiError"

\* a system failure with code 19 but no duration has reached the caller of
\* get_default_notebook as the generic error
C1_Witness ==
    /\ op.name = "get_default_notebook"
    /\ outcome.cls = "EvernoteApiError"
    /\ \E e \in raised :
          e.cls = "EDAMSystemException" /\ e.errorCode = 19 /\ ~e.hasRateLimitDuration

\* C2: the typed error delivered to the caller carries the remote failure as its cause
C2_CauseChained ==
    outcome.kind = "raise" => raised # {} /\ outcome.cause = raised

C9_ValidationError ==
    op.name = "new_note" /\ input.text = <<>> /\ input.html = "" /\ input.files = <<>>
        => outcome.cls = "ValidationError" /\ sent = <<>>

(***************************************************************************)
(* PoolSpec: calls dispatched to the executor.  Calls are numbered in the  *)
(* order the event loop dispatches them (run_in_executor is called from    *)
(* the loop's one thread).                                                 *)
(***************************************************************************)
MaxWorkers == 10

Calls == 1..(MaxWorkers + ExtraCalls)

\* the remote method of get_note, save_note, new_note, update_note, get_default_notebook
OpMethods == <<"getNote", "createNote", "createNote", "updateNote", "getDefaultNotebook">>

\* the operation call t is
CallOp(t) == ((t - 1) % 5) + 1

PoolFailures ==
    <<Exc("EDAMNotFoundException", 0, FALSE, 0, ""),
      Exc("EDAMSystemException", RateLimitCode, TRUE, 1, "sys"),
      Exc("Exception", 0, FALSE, 0, "timed out")>>

\* what the remote store does with call t
CallBehaviour(t) ==
    IF t % 4 = 0 THEN Returns(OpMethods[CallOp(t)] \o " result")
    ELSE Raises(PoolFailures[t % 4])

Running == {t \in Calls : phase[t] = "running"}

\* a pool that starts one thread too many
WorkerFreeOffByOne == Cardinality(Running) <= MaxWorkers

\* ThreadPoolExecutor(max_workers=10): a thread is free to take the next work item
WorkerFree == Cardinality(Running) < MaxWorkers

PoolInit ==
    /\ ClientIdle
    /\ MergeIdle
    /\ phase = [t \in Calls |-> "new"]
    /\ queue = <<>>
    /\ received = [t \in Calls |-> {}]

\* loop.run_in_executor(self.executor, fn): the work item is queued, the task awaits
Dispatch(t) ==
    /\ phase[t] = "new"
    /\ \A u \in Calls : u < t => phase[u] # "new"
    /\ phase' = [phase EXCEPT ![t] = "queued"]
    /\ queue' = Append(queue, t)
    /\ UNCHANGED <<received, clientVars, mergeVars>>

\* a free worker thread takes the oldest work item and starts the blocking call
Start ==
    /\ queue # <<>>
    /\ WorkerFree
    /\ phase' = [phase EXCEPT ![Head(queue)] = "running"]
    /\ queue' = Tail(queue)
    /\ UNCHANGED <<received, clientVars, mergeVars>>

\* __call_store_method returns or raises in the worker thread, which is free again;
\* the await of run_in_executor resumes the task with that result or exception
Finish(t) ==
    /\ phase[t] = "running"
    /\ phase' = [phase EXCEPT ![t] = "resumed"]
    /\ received' = [received EXCEPT ![t] = {CallStoreMethod(CallBehaviour(t))}]
    /\ UNCHANGED <<queue, clientVars, mergeVars>>

PoolNext ==
    \/ \E t \in Calls : Dispatch(t)
    \/ Start
    \/ \E t \in Calls : Finish(t)

PoolSpec ==
    /\ PoolInit
    /\ [][PoolNext]_vars
    /\ WF_vars(Start)
    /\ \A t \in Calls : WF_vars(Finish(t))

(***************************************************************************)
(* MergeSpec: new content merged into an existing note.  The merge fetches *)
(* the note, stages the new files as a note of their own (to have a link   *)
(* to them), splices the new fragments into the fetched body and updates   *)
(* the note.  Its remote calls go through the client operations above.     *)
(***************************************************************************)
\* save_note forwarding to the wrong remote method
SaveNoteMethodWrong == "updateNote"

GetNoteMethod == "getNote"
SaveNoteMethod == "createNote"
UpdateNoteMethod == "updateNote"

MergeTexts == {<<>>, <<"A">>}
MergeHtmls == {"", "<p>New Year</p>"}
\* the files of a merge, by name
MergeFileLists == {<<>>, <<"a.txt">>, <<"a.txt", "b.txt">>}

MergeRequests ==
    {[title |-> t, text |-> x, html |-> h, files |-> f, notebookGuid |-> "", guid |-> "123"] :
        t \in Titles, x \in MergeTexts, h \in MergeHtmls, f \in MergeFileLists}

\* the failures the remote store answers a merge's calls with
MergeFailures ==
    {Exc("EDAMNotFoundException", 0, FALSE, 0, ""),
     Exc("EDAMSystemException", RateLimitCode, TRUE, 1, "sys"),
     Exc("Exception", 0, FALSE, 0, "timed out")}

InitialBody == <<RootOpen, Br, Div(<<"t">>), Html("<p>Test</p>"), Br, RootClose>>

ExistingTitles == {<<>>, <<"O", "n", "e">>}

\* the guid the remote store gives the next created note
NewGuid(st) == "new" \o ToString(Cardinality(DOMAIN st))

\* get_note_link(guid)
NoteLink(guid) == "https://host/shard/S/nl/U/" \o guid \o "/"

\* the note submitted to stage the files of a merge
StagingNote(req, fetched) ==
    Note("", req.title, fetched.notebookGuid,
         <<RootOpen, Br, Br>>
             \o [i \in 1..Len(req.files) |-> Media(<<req.files[i], "application/octet-stream">>)]
             \o <<RootClose>>,
         req.files)

StripClose(body) ==
    IF body # <<>> /\ body[Len(body)] = RootClose
    THEN SubSeq(body, 1, Len(body) - 1)
    ELSE body

\* line-break, text block, html fragment, line-break, one anchor per staged file
Fragments(req, link) ==
    <<Br>>
    \o (IF req.text # <<>> THEN <<Div(req.text)>> ELSE <<>>)
    \o (IF req.html # "" THEN <<Html(req.html)>> ELSE <<>>)
    \o <<Br>>
    \o [i \in 1..Len(req.files) |-> Anchor(link, req.files[i])]

\* the splice that keeps the old root-closing tag
SpliceNoStrip(body, req, link) == body \o Fragments(req, link) \o <<RootClose>>

Splice(body, req, link) == StripClose(body) \o Fragments(req, link) \o <<RootClose>>

\* the new title wins when there is one
MergedTitleNewWins(existing, new) == IF new # <<>> THEN new ELSE existing

\* the existing title wins unless it is empty
MergedTitle(existing, new) == IF existing # <<>> THEN existing ELSE new

MergedNote(fetched, req, link) ==
    [fetched EXCEPT !.title = MergedTitle(fetched.title, req.title),
                    !.content = Splice(fetched.content, req, link)]

\* what the remote store may do with a call: the store it leaves and its answer.
\* Any call may fail, leaving the store as it was.
RemoteOutcomes(method, st, guid, note) ==
    (IF method = "getNote" /\ guid \in DOMAIN st
     THEN {[store |-> st, answer |-> Returns(st[guid])]}
     ELSE IF method = "createNote"
     THEN LET created == [note EXCEPT !.guid = NewGuid(st)]
          IN  {[store |-> (created.guid :> created) @@ st, answer |-> Returns(created)]}
     ELSE IF method = "updateNote" /\ note.guid \in DOMAIN st
     THEN {[store |-> [st EXCEPT ![note.guid] = note], answer |-> Returns("updated")]}
     ELSE {})
    \cup {[store |-> st, answer |-> Raises(e)] : e \in MergeFailures}

NoLocal == [fetched |-> {}, staging |-> {}, link |-> ""]

EmptyNote == Note("", <<>>, "", <<>>, <<>>)

MergeInit ==
    /\ ClientIdle
    /\ PoolIdle
    /\ \E t \in ExistingTitles :
          store = ("123" :> Note("123", t, "notebook", InitialBody, <<>>))
    /\ pc = "idle"
    /\ local = NoLocal
    /\ history = <<>>
    /\ merges = 0

\* one remote call of the merge through __call_store_method: the call is logged, the
\* store changes as the remote decides, a failure ends the merge with the typed error
MergeCall(method, token, note, r) ==
    /\ sent' = Append(sent, RemoteCall(method, token, {note}))
    /\ store' = r.store
    /\ raised' = r.answer.raises
    /\ outcome' = IF CallStoreMethod(r.answer).kind = "return" /\ method # UpdateNoteMethod
                  THEN NoOutcome ELSE CallStoreMethod(r.answer)

\* phase 0: the existing note is fetched (get_note)
MergeFetch ==
    /\ pc = "idle"
    /\ merges < MaxMerges
    /\ \E token \in {"tokenA"}, req \in MergeRequests :
       \E r \in RemoteOutcomes(GetNoteMethod, store, req.guid, EmptyNote) :
          /\ op' = [name |-> "merge", token |-> token]
          /\ input' = req
          /\ merges' = merges + 1
          /\ MergeCall(GetNoteMethod, token, EmptyNote, r)
          /\ IF CallStoreMethod(r.answer).kind = "return"
             THEN /\ local' = [local EXCEPT !.fetched = {CallStoreMethod(r.answer).value}]
                  /\ pc' = "fetched"
             ELSE /\ pc' = "done"
                  /\ UNCHANGED local
          /\ UNCHANGED <<history, poolVars>>

\* phase 1: the new files are submitted as a note of their own (save_note)
MergeStage ==
    /\ pc = "fetched"
    /\ input.files # <<>>
    /\ \E fetched \in local.fetched :
       \E r \in RemoteOutcomes(SaveNoteMethod, store, "", StagingNote(input, fetched)) :
          /\ MergeCall(SaveNoteMethod, op.token, StagingNote(input, fetched), r)
          /\ IF CallStoreMethod(r.answer).kind = "return"
             THEN /\ local' = [local EXCEPT
                                 !.staging = {CallStoreMethod(r.answer).value},
                                 !.link = NoteLink(CallStoreMethod(r.answer).value.guid)]
                  /\ pc' = "staged"
             ELSE /\ pc' = "done"
                  /\ UNCHANGED local
    /\ UNCHANGED <<op, input, history, merges, poolVars>>

\* phase 2: the fragments are spliced into the fetched body, the note is updated
\* (update_note)
MergeUpdate ==
    /\ \/ pc = "staged"
       \/ pc = "fetched" /\ input.files = <<>>
    /\ \E fetched \in local.fetched :
       \E r \in RemoteOutcomes(UpdateNoteMethod, store, fetched.guid,
                               MergedNote(fetched, input, local.link)) :
          /\ MergeCall(UpdateNoteMethod, op.token,
                       MergedNote(fetched, input, local.link), r)
          /\ history' = IF CallStoreMethod(r.answer).kind = "return"
                        THEN Append(history, [req |-> input, link |-> local.link])
                        ELSE history
          /\ pc' = "done"
    /\ UNCHANGED <<op, input, local, merges, poolVars>>

\* the caller has the result or the error; the transient copies are dropped
MergeReturn ==
    /\ pc = "done"
    /\ pc' = "idle"
    /\ op' = [name |-> "", token |-> ""]
    /\ sent' = <<>>
    /\ raised' = {}
    /\ outcome' = NoOutcome
    /\ input' = NoInput
    /\ local' = NoLocal
    /\ UNCHANGED <<store, history, merges, poolVars>>

MergeNext == MergeFetch \/ MergeStage \/ MergeUpdate \/ MergeReturn

MergeSpec == MergeInit /\ [][MergeNext]_vars

(***************************************************************************)
(* Properties of the merge (MergeSpec).                                    *)
(***************************************************************************)
RECURSIVE Count(_, _)
Count(x, s) == IF s = <<>> THEN 0 ELSE (IF Head(s) = x THEN 1 ELSE 0) + Count(x, Tail(s))

Methods == [i \in 1..Len(sent) |-> sent[i].method]

Anchors(body) == SelectSeq(body, LAMBDA el : el.tag = "a")

\* C4: in a merge with new files the staging createNote call is made once and has returned
\* before the one updateNote call is issued, the staging note has the new title (empty if
\* none), and every anchor spliced into the body refers to the link of that staging note;
\* in a merge without new files no createNote call is made
C4_StageThenSplice ==
    op.name = "merge" =>
        /\ input.files = <<>> => Count("createNote", Methods) = 0
        /\ input.files # <<>> /\ Count("updateNote", Methods) > 0 =>
              /\ Methods = <<"getNote", "createNote", "updateNote">>
              /\ Cardinality(local.staging) = 1
              /\ \A st \in local.staging :
                    /\ st.title = input.title
                    /\ st.guid \in DOMAIN store /\ store[st.guid] = st
                    /\ st.guid # input.guid
                    /\ \A n \in sent[2].note : n.title = input.title
                    /\ \A n \in sent[3].note : \A f \in local.fetched :
                          Anchors(SubSeq(n.content, Len(f.content), Len(n.content)))
                            = [i \in 1..Len(input.files) |->
                                  Anchor(NoteLink(st.guid), input.files[i])]

\* a merge with two new files and a new title has issued its updateNote call
C4_Witness ==
    /\ op.name = "merge"
    /\ pc = "done"
    /\ Len(input.files) = 2
    /\ input.title # <<>>
    /\ Len(sent) = 3
    /\ outcome.kind = "return"

RECURSIVE Appended(_)
Appended(h) ==
    IF h = <<>> THEN <<>>
    ELSE LET r == Head(h).req
         IN  <<Br>>
             \o (IF r.text = <<>> THEN <<>> ELSE <<Div(r.text)>>)
             \o (IF r.html = "" THEN <<>> ELSE <<Html(r.html)>>)
             \o <<Br>>
             \o [i \in 1..Len(r.files) |-> Anchor(Head(h).link, r.files[i])]
             \o Appended(Tail(h))

IsPrefix(p, s) == Len(p) <= Len(s) /\ SubSeq(s, 1, Len(p)) = p

C6_TitleAndNotebookKept ==
    op.name = "merge" /\ pc = "done" /\ outcome.kind = "return" =>
        \A f \in local.fetched : \A n \in sent[Len(sent)].note :
            /\ n.notebookGuid = f.notebookGuid
            /\ store[f.guid].notebookGuid = f.notebookGuid
            /\ store[f.guid].title = n.title
            /\ f.title # <<>> => n.title = f.title
            /\ f.title = <<>> => n.title = input.title

\* a merge with a new title has updated a note that had a title
C6_Witness ==
    /\ op.name = "merge" /\ pc = "done" /\ outcome.kind = "return"
    /\ input.title # <<>>
    /\ \E f \in local.fetched : f.title # <<>> /\ f.title # input.title

FailedUpdate == op.name = "merge" /\ pc = "done" /\ local.staging # {} /\ raised # {}

\* C7: when the staging of a merge succeeded and its updateNote call fails, the merge ends
\* with the typed error of that failure, the staging note is still in the remote store,
\* the existing note is as it was fetched, the remote calls of the merge are getNote,
\* createNote, updateNote and no other (no delete, no second attempt), and the merge makes
\* no call after that
C7_OrphanAfterFailedUpdate ==
    /\ [](FailedUpdate =>
            /\ outcome.kind = "raise"
            /\ outcome.cls \in TypedErrors
            /\ \A e \in raised :
                  /\ e.cls = "EDAMNotFoundException" => outcome.cls = "NoteNotFound"
                  /\ IsRateLimit(e) => outcome.cls = "RateLimitReached"
                  /\ e.cls = "Exception" => outcome.cls = "EvernoteApiError"
            /\ \A st \in local.staging : st.guid \in DOMAIN store /\ store[st.guid] = st
            /\ \A f \in local.fetched : store[f.guid] = f
            /\ Methods = <<"getNote", "createNote", "updateNote">>)
    /\ [][FailedUpdate => sent' = <<>> /\ store' = store]_vars

\* the updateNote call of a merge with files has failed on a rate limit
C7_Witness ==
    /\ FailedUpdate
    /\ outcome.cls = "RateLimitReached"
    /\ Len(sent) = 3

====
